---------------------------- MODULE Spec2Model ----------------------------
(***************************************************************************)
(* A model of UBIBoot's FAT32 kernel loader, src/src/fat.c:                *)
(*   get_first_partition, process_boot_sector, load_from_cluster,          *)
(*   find_file and mmc_load_kernel, run against a block device whose       *)
(*   sectors are drawn from bounded sets and whose reads may fail.         *)
(*                                                                         *)
(* uint32_t values are pairs <<hi, lo>> of 16-bit halves, so that all      *)
(* arithmetic is done modulo 2^32 exactly as the C code does it.           *)
(***************************************************************************)
EXTENDS Integers, Sequences, FiniteSets, TLC

(***************************************************************************)
(* 32-bit unsigned arithmetic on <<hi, lo>> pairs.                         *)
(***************************************************************************)
U32(n) == <<n \div 65536, n % 65536>>

Add32(a, b) ==
    LET lo == a[2] + b[2]
    IN  <<(a[1] + b[1] + (lo \div 65536)) % 65536, lo % 65536>>

Neg32(a) == Add32(<<65535 - a[1], 65535 - a[2]>>, <<0, 1>>)

Sub32(a, b) == Add32(a, Neg32(b))

\* a * k modulo 2^32, for k below 2^15 (a uint8_t or uint16_t factor).
Mul32(a, k) ==
    LET lo == a[2] * k
    IN  <<(a[1] * k + (lo \div 65536)) % 65536, lo % 65536>>

Lt32(a, b) == a[1] < b[1] \/ (a[1] = b[1] /\ a[2] < b[2])

Le32(a, b) == a = b \/ Lt32(a, b)

\* x & 0x0fffffff
Mask28(x) == <<x[1] % 4096, x[2]>>

(***************************************************************************)
(* Constants of the program.                                               *)
(***************************************************************************)
FAT_BLOCK_SIZE == 512

\* FAT_BLOCK_SIZE >> 2: the 32-bit FAT entries in one sector.
EntriesPerFatSector == FAT_BLOCK_SIZE \div 4

\* sizeof(struct dir_entry)
DirEntrySize == 32

ATTR_VOLUME == 8

ATTR_DIR == 16

MBR_SIGNATURE == 43605

STATUS_ACTIVE == 128

\* (uint32_t) -1, the initial cached_fat_sector
NoFatSector == <<65535, 65535>>

\* 0x0ffffff0, the first terminating FAT value
EocMin == <<4095, 65520>>

\* C strings: sequences of bytes, the literal's terminating NUL included.
Str_FAT32 == <<70, 65, 84, 51, 50, 0>>

\* "KERNEL  BIN"
FAT_BOOTFILE_NAME == <<75, 69, 82, 78, 69, 76, 32, 32, 66, 73, 78, 0>>

\* "ALTKERNBIN"
FAT_BOOTFILE_ALT_NAME == <<65, 76, 84, 75, 69, 82, 78, 32, 66, 73, 78, 0>>

\* strncmp(a, b, n) = 0: equal up to n bytes or up to a common NUL.
RECURSIVE StrnEqFrom(_, _, _, _)
StrnEqFrom(a, b, n, k) ==
    IF k > n THEN TRUE
    ELSE IF a[k] # b[k] THEN FALSE
    ELSE IF a[k] = 0 THEN TRUE
    ELSE StrnEqFrom(a, b, n, k + 1)

StrnEq(a, b, n) == StrnEqFrom(a, b, n, 1)

\* attr & mask, for a one-bit mask
HasBit(attr, mask) == (attr \div mask) % 2 = 1


(***************************************************************************)
(* The block device.  An image holds the MBR (sector 0), the boot sector   *)
(* of the first partition, the non-zero 32-bit words of its FAT sectors    *)
(* (keyed by <<sector, index>>) and the sectors that hold directory        *)
(* entries (keyed by sector).  Every other word and entry is zero.         *)
(***************************************************************************)
Name11(s) == SubSeq(s, 1, 11)

Entry(name, attr, cl) ==
    [name |-> name, attr |-> attr, starthi |-> cl[1], start |-> cl[2]]

\* An all-zero entry: name[0] = 0 ends the directory.
E_Zero == Entry(<<0, 0, 0, 0, 0, 0, 0, 0, 0, 0, 0>>, 0, <<0, 0>>)

\* "JUNK       ": a regular file with another name.
E_Junk == Entry(<<74, 85, 78, 75, 32, 32, 32, 32, 32, 32, 32>>, 32, U32(9))

\* "KERNEL  BIM": the primary name but for its last byte.
E_Near == Entry(<<75, 69, 82, 78, 69, 76, 32, 32, 66, 73, 77>>, 32, U32(9))

E_Prim(cl) == Entry(Name11(FAT_BOOTFILE_NAME), 32, cl)

E_Alt(cl) == Entry(Name11(FAT_BOOTFILE_ALT_NAME), 32, cl)

\* The primary name on a subdirectory, the alternate name on a volume label.
E_PrimDir == Entry(Name11(FAT_BOOTFILE_NAME), ATTR_DIR, U32(3))

E_AltVol == Entry(Name11(FAT_BOOTFILE_ALT_NAME), ATTR_VOLUME + 32, U32(6))

ZeroSector == [head |-> <<>>, fill |-> E_Zero]

\* The on-disk layout of a FAT32 volume, used to build the images.
FmtFat1(mbr, bs) == Add32(mbr.lba, U32(bs.reserved))

FmtData(mbr, bs) == Add32(FmtFat1(mbr, bs), Mul32(bs.fat32_length, bs.fats))

FmtFatKey(mbr, bs, c) ==
    <<Add32(FmtFat1(mbr, bs), U32(c[1] * 512 + (c[2] \div 128))), c[2] % 128>>

FmtClusterSector(mbr, bs, c) ==
    Add32(FmtData(mbr, bs), Mul32(Sub32(c, U32(2)), bs.cluster_size))

\* fatmap: cluster -> FAT entry; dirmap: cluster -> [head, fill].
MkImage(mbr, bs, fatmap, dirmap) ==
    LET fkeys == {FmtFatKey(mbr, bs, c) : c \in DOMAIN fatmap}
        dkeys == {<<c, j>> : c \in DOMAIN dirmap, j \in 0..(bs.cluster_size - 1)}
        dsec(k) == Add32(FmtClusterSector(mbr, bs, k[1]), U32(k[2]))
    IN  [mbr  |-> mbr,
         bs   |-> bs,
         fat  |-> [k \in fkeys |->
                     fatmap[CHOOSE c \in DOMAIN fatmap : FmtFatKey(mbr, bs, c) = k]],
         dirs |-> [s \in {dsec(k) : k \in dkeys} |->
                     LET k == CHOOSE q \in dkeys : dsec(q) = s
                     IN  [head |-> IF k[2] = 0 THEN dirmap[k[1]].head ELSE <<>>,
                          fill |-> dirmap[k[1]].fill]]]

\* What a successful read of one sector delivers.
DevMbr(im, s) ==
    IF s = <<0, 0>> THEN im.mbr
    ELSE [signature |-> 0, status |-> 0, lba |-> <<0, 0>>]

DevBoot(im, s) ==
    IF s = im.mbr.lba THEN im.bs
    ELSE [reserved |-> 0, fat32_length |-> <<0, 0>>, fats |-> 0,
          root_cluster |-> <<0, 0>>, cluster_size |-> 0,
          fs_type |-> <<0, 0, 0, 0, 0, 0, 0, 0>>]

DevWord(im, s, idx) ==
    IF <<s, idx>> \in DOMAIN im.fat THEN im.fat[<<s, idx>>] ELSE <<0, 0>>

DevDir(im, s) == IF s \in DOMAIN im.dirs THEN im.dirs[s] ELSE ZeroSector

(***************************************************************************)
(* Expressions of the code.                                                *)
(***************************************************************************)
\* A null pointer; every other pointer is a byte offset from the caller's
\* destination address.
NULL == 0 - 1

\* The ld_addr argument of mmc_load_kernel.
Dest == 0

\* Mutants of MbrCheck: the status byte is not looked at; the signature is
\* not looked at.
MbrCheckAnyStatus(mbr) ==
    IF mbr.signature # MBR_SIGNATURE THEN "0x01" ELSE "ok"

MbrCheckNoSignature(mbr) ==
    IF mbr.status # 0 /\ mbr.status # STATUS_ACTIVE THEN "0x02" ELSE "ok"

\* get_first_partition's checks on a sector that was read: the diagnostic
\* code of the failing check, or "ok".
MbrCheck(mbr) ==
    IF mbr.signature # MBR_SIGNATURE THEN "0x01"
    ELSE IF mbr.status # 0 /\ mbr.status # STATUS_ACTIVE THEN "0x02"
    ELSE "ok"

\* process_boot_sector's geometry.
BsFat1(lba0, bs) == Add32(lba0, U32(bs.reserved))

BsData(lba0, bs) == Add32(BsFat1(lba0, bs), Mul32(bs.fat32_length, bs.fats))

\* Mutant of IsFat32: four bytes are compared.
IsFat32FourBytes(fs_type) == StrnEq(fs_type, Str_FAT32, 4)

\* !strncmp(vinfo->fs_type, "FAT32", 5)
IsFat32(fs_type) == StrnEq(fs_type, Str_FAT32, 5)

\* lba_data + (cluster - 2) * cluster_size
DataSectorOf(ldata, cl, csize) == Add32(ldata, Mul32(Sub32(cl, U32(2)), csize))

\* lba_fat1 + cluster / (FAT_BLOCK_SIZE >> 2)
FatSectorOf(lfat1, cl) ==
    Add32(lfat1, U32(cl[1] * (65536 \div EntriesPerFatSector)
                     + (cl[2] \div EntriesPerFatSector)))

\* cluster % (FAT_BLOCK_SIZE >> 2)
FatIndexOf(cl) == cl[2] % EntriesPerFatSector

\* cluster == prev_cluster + 1
IsNextOf(cl, prev) == cl = Add32(prev, U32(1))

\* (cluster >= 0x0ffffff0) || (cluster <= 1)
ChainEnds(cl) == Le32(EocMin, cl) \/ Le32(cl, U32(1))

\* entry->starthi << 16 | entry->start
StartCluster(e) == <<e.starthi, e.start>>

\* Mutant of SearchName: i == alt, without the normalisation of alt.
SearchNameNoNorm(it, a) ==
    IF it = a THEN FAT_BOOTFILE_NAME ELSE FAT_BOOTFILE_ALT_NAME

\* The name searched in iteration it: i == !!alt selects the regular kernel.
SearchName(it, a) ==
    IF it = (IF a # 0 THEN 1 ELSE 0) THEN FAT_BOOTFILE_NAME
    ELSE FAT_BOOTFILE_ALT_NAME

\* Mutant of DataReadFailed: the result of the data read is ignored.
DataReadIgnored(ok) == FALSE

\* if (mmc_block_read(id, ld_addr, data_sector, num_data_sectors)), given
\* whether the device delivered.
DataReadFailed(ok) == ~ok

\* Mutant of Variant: the loop index is returned.
VariantIsIndex(it, a) == it

\* return i == !alt
Variant(it, a) == IF it = (IF a # 0 THEN 0 ELSE 1) THEN 1 ELSE 0

(***************************************************************************)
(* Memory at the destination: a sequence of sectors, each named by the     *)
(* device sector it was read from.  Memory never written holds StaleRam.   *)
(***************************************************************************)
StaleRam == [head |-> <<E_Prim(U32(3)), E_Alt(U32(6))>>, fill |-> E_Junk]

EntriesPerSector == FAT_BLOCK_SIZE \div DirEntrySize

MemSector(im, m, k) == IF k < Len(m) THEN DevDir(im, m[k + 1]) ELSE StaleRam

\* The directory entry at byte offset p.
EntryAt(im, m, p) ==
    LET j   == p \div DirEntrySize
        sec == MemSector(im, m, j \div EntriesPerSector)
        k   == j % EntriesPerSector
    IN  IF k < Len(sec.head) THEN sec.head[k + 1] ELSE sec.fill

\* n sectors read from device sector src to byte offset p.
MemWrite(m, p, src, n) ==
    LET o   == p \div FAT_BLOCK_SIZE
        len == IF Len(m) > o + n THEN Len(m) ELSE o + n
    IN  [j \in 1..len |->
            IF j > o /\ j <= o + n THEN Add32(src, U32(j - o - 1)) ELSE m[j]]

\* Mutant of EntryMatches: the attribute byte is not looked at.
EntryMatchesAnyAttr(e, name) == StrnEq(e.name, name, 8 + 3)

\* Whether find_file takes the entry: not a label or directory, name equal.
EntryMatches(e, name) ==
    /\ ~(HasBit(e.attr, ATTR_VOLUME) \/ HasBit(e.attr, ATTR_DIR))
    /\ StrnEq(e.name, name, 8 + 3)

\* find_file: the offset of the entry found, or NULL.
RECURSIVE find_file(_, _, _, _, _)
find_file(im, m, first, end, name) ==
    IF first = end \/ EntryAt(im, m, first).name[1] = 0 THEN NULL
    ELSE IF EntryMatches(EntryAt(im, m, first), name) THEN first
    ELSE find_file(im, m, first + DirEntrySize, end, name)

(***************************************************************************)
(* The images and arguments the loader is run on.                          *)
(***************************************************************************)
\* Block Reader calls modelled in one run (a cyclic FAT chain never ends).
MaxReads == 12

\* Explicit entries at the head of the root directory's first sector.
MaxDirEntries == 2

SeqsUpTo(S, n) == UNION {[1..k -> S] : k \in 0..n}

T_FAT32 == <<70, 65, 84, 51, 50, 32, 32, 32>>

\* "FAT32XYZ", "FAT16   ", "FAT3" and NULs, "fAT32   "
FsTypes ==
    {T_FAT32,
     <<70, 65, 84, 51, 50, 88, 89, 90>>,
     <<70, 65, 84, 49, 54, 32, 32, 32>>,
     <<70, 65, 84, 51, 0, 0, 0, 0>>,
     <<102, 65, 84, 51, 50, 32, 32, 32>>}

\* End-of-chain marks: 0x0fffffff, and 0xffffffff (the top four bits are
\* not part of a FAT32 entry).
EOC == <<4095, 65535>>

EOCX == <<65535, 65535>>

\* The highest data cluster 0x0fffffef and its neighbours.
TopCluster == <<4095, 65519>>

BelowTop == <<4095, 65518>>

BaseMbr(l) == [signature |-> MBR_SIGNATURE, status |-> STATUS_ACTIVE, lba |-> l]

BaseBs ==
    [reserved |-> 32, fat32_length |-> U32(8), fats |-> 2,
     root_cluster |-> U32(2), cluster_size |-> 1, fs_type |-> T_FAT32]

\* A root directory of one cluster, the primary kernel in clusters 3, 4 and
\* the alternate kernel in clusters 6, 9.
BaseFat(root) ==
    (root :> EOC) @@ (U32(3) :> U32(4)) @@ (U32(4) :> EOCX)
    @@ (U32(6) :> U32(9)) @@ (U32(9) :> EOC)

BaseHead == <<E_Prim(U32(3)), E_Alt(U32(6))>>

BaseDir(root) == (root :> [head |-> BaseHead, fill |-> E_Zero])

MbrImages ==
    {MkImage([signature |-> sg, status |-> st, lba |-> l],
             BaseBs, BaseFat(U32(2)), BaseDir(U32(2))) :
        sg \in {MBR_SIGNATURE, MBR_SIGNATURE - 1, 21930},
        st \in {0, STATUS_ACTIVE, 1, STATUS_ACTIVE + 1},
        l \in {U32(64), U32(2048)}}

BootImages ==
    {MkImage(BaseMbr(U32(64)),
             [reserved |-> rs, fat32_length |-> U32(8), fats |-> nf,
              root_cluster |-> rc, cluster_size |-> cs, fs_type |-> ft],
             BaseFat(rc), BaseDir(rc)) :
        rs \in {1, 32}, nf \in {1, 2}, rc \in {U32(2), U32(5)},
        cs \in {0, 1, 2}, ft \in FsTypes}

\* Every FAT over clusters 2, 3, 4 with these entries; the files start in
\* clusters 3 and 4, cluster 200 lies in the second FAT sector, the entry of
\* cluster 8 is zero.
ChainValues ==
    {<<61440, 3>>, U32(4), U32(2), U32(200), U32(8), EocMin, U32(1)}

ChainImages ==
    {MkImage(BaseMbr(U32(64)), BaseBs,
             f @@ (U32(200) :> EOCX),
             (U32(2) :> [head |-> <<E_Prim(U32(3)), E_Alt(U32(4))>>,
                         fill |-> E_Zero])) :
        f \in [{U32(2), U32(3), U32(4)} -> ChainValues]}

\* Chains through the highest data cluster, whose successor in number is
\* the terminating value 0x0ffffff0: the root directory in clusters
\* 0x0fffffee, 0x0fffffef or in 0x0fffffee alone, the primary kernel in
\* cluster 3 alone or in 3, 0x0fffffef; af is what the FAT holds at index
\* 0x0ffffff0.
TopImages ==
    {MkImage(BaseMbr(U32(64)), [BaseBs EXCEPT !.root_cluster = BelowTop],
             (BelowTop :> nx) @@ (TopCluster :> EocMin) @@ (EocMin :> af)
             @@ (U32(3) :> p3) @@ (U32(5) :> EOC),
             (BelowTop :> [head |-> <<E_Prim(U32(3)), E_Alt(TopCluster)>>,
                           fill |-> E_Zero])) :
        nx \in {TopCluster, EOC},
        af \in {<<0, 0>>, U32(5), <<4095, 65521>>, BelowTop},
        p3 \in {EOC, TopCluster}}

\* A partition so high on the device that a FAT sector has number 0xffffffff:
\* the alternate kernel's start cluster 32645 is looked up there.
HighImages ==
    {MkImage(BaseMbr(<<65535, 65248>>), BaseBs,
             BaseFat(U32(2)) @@ (U32(32645) :> EOC),
             (U32(2) :> [head |-> <<E_Alt(U32(32645)), E_Prim(pc0)>>,
                         fill |-> E_Zero])) :
        pc0 \in {U32(3), U32(32645)}}

\* An empty file: its directory entry has start cluster 0, and FAT[0] holds
\* the media descriptor 0x0ffffff8.
EmptyFileImages ==
    {MkImage(BaseMbr(U32(64)), BaseBs,
             BaseFat(U32(2)) @@ (U32(0) :> <<4095, 65528>>),
             (U32(2) :> [head |-> <<E_Prim(U32(0)), E_Alt(U32(6))>>,
                         fill |-> E_Zero]))}

DirEntries == {E_Prim(U32(3)), E_Alt(U32(6)), E_PrimDir, E_AltVol, E_Zero, E_Near}

DirImages ==
    {MkImage(BaseMbr(U32(64)), BaseBs, BaseFat(U32(2)),
             (U32(2) :> [head |-> h, fill |-> fl])) :
        h \in SeqsUpTo(DirEntries, MaxDirEntries), fl \in {E_Zero, E_Junk}}

Images == MbrImages \cup BootImages \cup ChainImages \cup TopImages
          \cup HighImages \cup EmptyFileImages \cup DirImages

\* The alt argument of mmc_load_kernel (an int).
AltValues == {0, 1, 2}

\* What an uninitialised word of the stack buffer may hold.
GarbageWords == {<<0, 0>>, U32(3), EOCX}

(***************************************************************************)
(* The state.                                                              *)
(***************************************************************************)
VARIABLES
    img, alt,                 \* the device and mmc_load_kernel's alt argument
    pc,                       \* the statement the program is at
    lba_fat1, lba_data, root_cluster, cluster_size,       \* the globals
    lba, i, err, dir_start, dir_end, entry, ret,          \* mmc_load_kernel
    cluster, cached_fat_sector, sector, data_sector,      \* load_from_cluster
    num_data_sectors, ld_addr, caller, lfc_ret,
    mem,                      \* the memory at the destination
    log,                      \* the mmc_block_read calls made, in order
    serial,                   \* the diagnostics emitted, in order
    calls,                    \* the load_from_cluster calls made, in order
    searches,                 \* the find_file calls made, in order
    events                    \* the FAT lookups and data reads, in order

inputs == <<img, alt>>

geometry == <<lba_fat1, lba_data, root_cluster, cluster_size>>

orch == <<lba, i, err, dir_start, dir_end, entry, ret>>

lfc == <<cluster, cached_fat_sector, sector, data_sector, num_data_sectors,
         ld_addr, caller, lfc_ret>>

hist == <<log, serial, calls, searches, events>>

vars == <<inputs, pc, geometry, orch, lfc, mem, hist>>

\* The contents of the sector buffer before any FAT sector was read into it.
Uninit == <<>>

\* A local variable that was not assigned yet.
Unset == <<>>

\* The value of ret while mmc_load_kernel has not returned.
NotReturned == 0 - 2

\* The result of a load_from_cluster call that has not returned.
Running == 0 - 3

Init ==
    /\ img \in Images
    /\ alt \in AltValues
    /\ pc = "get_first_partition"
    /\ lba_fat1 = <<0, 0>> /\ lba_data = <<0, 0>>
    /\ root_cluster = <<0, 0>> /\ cluster_size = 0
    /\ lba = Unset /\ i = 0 /\ err = 0
    /\ dir_start = NULL /\ dir_end = NULL /\ entry = NULL /\ ret = NotReturned
    /\ cluster = Unset /\ cached_fat_sector = Unset /\ sector = Uninit
    /\ data_sector = Unset /\ num_data_sectors = 0 /\ ld_addr = NULL
    /\ caller = "none" /\ lfc_ret = NULL
    /\ mem = <<>> /\ log = <<>> /\ serial = <<>> /\ calls = <<>>
    /\ searches = <<>> /\ events = <<>>

\* One FAT lookup of load_from_cluster: the cluster looked up and the value
\* found; one data read it issued.
\* at: the number of mmc_block_read calls made when the event is over.
Lookup(c, v) ==
    [kind |-> "lookup", cluster |-> c, value |-> v, sector |-> <<0, 0>>,
     count |-> 0, call |-> Len(calls), at |-> Len(log')]

DataRead(s, n) ==
    [kind |-> "data", cluster |-> <<0, 0>>, value |-> <<0, 0>>, sector |-> s,
     count |-> n, call |-> Len(calls), at |-> Len(log')]

\* One mmc_block_read call: what was read, and whether the device delivered.
Read(op, s, n, ok) ==
    [op |-> op, sector |-> s, count |-> n, ok |-> ok, call |-> Len(calls)]

\* mmc_load_kernel returns r.
Return(r) == ret' = r /\ pc' = "done"

(***************************************************************************)
(* get_first_partition, called from mmc_load_kernel.                       *)
(***************************************************************************)
GetFirstPartition ==
    /\ pc = "get_first_partition"
    /\ Len(log) < MaxReads
    /\ \E ok \in BOOLEAN :
        LET mbr == DevMbr(img, <<0, 0>>) IN
        /\ log' = Append(log, Read("mbr", <<0, 0>>, 1, ok))
        /\ IF ~ok
           THEN serial' = Append(serial, "0x00") /\ Return(0 - 1) /\ lba' = lba
           ELSE IF MbrCheck(mbr) # "ok"
           THEN serial' = Append(serial, MbrCheck(mbr)) /\ Return(0 - 1)
                /\ lba' = lba
           ELSE serial' = serial /\ lba' = mbr.lba /\ ret' = ret
                /\ pc' = "process_boot_sector"
    /\ UNCHANGED <<inputs, geometry, i, err, dir_start, dir_end, entry, lfc,
                   mem, calls, searches, events>>

(***************************************************************************)
(* process_boot_sector, and the initialisation of the loop that follows.   *)
(***************************************************************************)
ProcessBootSector ==
    /\ pc = "process_boot_sector"
    /\ Len(log) < MaxReads
    /\ \E ok \in BOOLEAN :
        LET bs == DevBoot(img, lba) IN
        /\ log' = Append(log, Read("boot", lba, 1, ok))
        /\ IF ~ok
           THEN serial' = Append(serial, "0x03") /\ Return(0 - 1)
                /\ UNCHANGED geometry
           ELSE /\ lba_fat1' = BsFat1(lba, bs)
                /\ lba_data' = BsData(lba, bs)
                /\ root_cluster' = bs.root_cluster
                /\ cluster_size' = bs.cluster_size
                /\ IF ~IsFat32(bs.fs_type)
                   THEN serial' = Append(serial, "0x05") /\ Return(0 - 1)
                   ELSE serial' = Append(serial, "FAT32 filesystem detected")
                        /\ ret' = ret /\ pc' = "loop"
    /\ UNCHANGED <<inputs, lba, i, err, dir_start, dir_end, entry, lfc, mem,
                   calls, searches, events>>

(***************************************************************************)
(* load_from_cluster.  Call enters it; Leave returns r to the caller,     *)
(* with memory as m.                                                       *)
(***************************************************************************)
Call(who, start, dst) ==
    /\ cluster' = start
    /\ cached_fat_sector' = NoFatSector
    /\ sector' = Uninit
    /\ ld_addr' = dst
    /\ caller' = who
    /\ calls' = Append(calls, [who |-> who, i |-> i, start |-> start,
                               from |-> Len(log), result |-> Running,
                               mem |-> <<>>])
    /\ pc' = "lfc_outer"
    /\ UNCHANGED <<data_sector, num_data_sectors, lfc_ret, events>>

Leave(r, m) ==
    /\ lfc_ret' = r
    /\ calls' = [calls EXCEPT ![Len(calls)].result = r, ![Len(calls)].mem = m]
    /\ pc' = IF caller = "root" THEN "root_ret" ELSE "file_ret"

\* Mutant of LfcOuter: the batch's first sector is stored in the global
\* lba_data as well.
LfcOuterMovesData ==
    /\ pc = "lfc_outer"
    /\ data_sector' = DataSectorOf(lba_data, cluster, cluster_size)
    /\ lba_data' = DataSectorOf(lba_data, cluster, cluster_size)
    /\ num_data_sectors' = cluster_size
    /\ pc' = "lfc_inner"
    /\ UNCHANGED <<inputs, lba_fat1, root_cluster, cluster_size, orch, cluster,
                   cached_fat_sector, sector, ld_addr, caller, lfc_ret, mem,
                   hist>>

\* The head of the outer loop.
LfcOuter ==
    /\ pc = "lfc_outer"
    /\ data_sector' = DataSectorOf(lba_data, cluster, cluster_size)
    /\ num_data_sectors' = cluster_size
    /\ pc' = "lfc_inner"
    /\ UNCHANGED <<inputs, geometry, orch, cluster, cached_fat_sector, sector,
                   ld_addr, caller, lfc_ret, mem, hist>>

\* The FAT entry of the current cluster is w: the end of one inner iteration.
Follow(w) ==
    /\ cluster' = Mask28(w)
    /\ events' = Append(events, Lookup(cluster, Mask28(w)))
    /\ IF IsNextOf(Mask28(w), cluster)
       THEN num_data_sectors' = num_data_sectors + cluster_size
            /\ pc' = "lfc_inner"
       ELSE num_data_sectors' = num_data_sectors /\ pc' = "lfc_data"
    /\ UNCHANGED <<lfc_ret, calls, serial>>

\* One iteration of the inner loop: the FAT sector is read unless it is the
\* cached one, then the successor is looked up in the sector buffer.
LfcInner ==
    /\ pc = "lfc_inner"
    /\ LET fat_sector == FatSectorOf(lba_fat1, cluster)
           idx == FatIndexOf(cluster)
       IN  IF fat_sector # cached_fat_sector
           THEN /\ Len(log) < MaxReads
                /\ \E ok \in BOOLEAN :
                    /\ log' = Append(log, Read("fat", fat_sector, 1, ok))
                    /\ IF ~ok
                       THEN /\ serial' = Append(serial, "0x04")
                            /\ Leave(NULL, mem)
                            /\ UNCHANGED <<cluster, cached_fat_sector, sector,
                                           num_data_sectors, events>>
                       ELSE /\ cached_fat_sector' = fat_sector
                            /\ sector' = fat_sector
                            /\ Follow(DevWord(img, fat_sector, idx))
           ELSE /\ log' = log
                /\ UNCHANGED <<cached_fat_sector, sector>>
                /\ IF sector = Uninit
                   THEN \E w \in GarbageWords : Follow(w)
                   ELSE Follow(DevWord(img, sector, idx))
    /\ UNCHANGED <<inputs, geometry, orch, data_sector, ld_addr, caller, mem,
                   searches>>

\* The data read of one batch, and the test that ends the outer loop.  A
\* failed read may have transferred any part of the batch.
LfcData ==
    /\ pc = "lfc_data"
    /\ Len(log) < MaxReads
    /\ \E ok \in BOOLEAN :
        /\ log' = Append(log, Read("data", data_sector, num_data_sectors, ok))
        /\ events' = Append(events, DataRead(data_sector, num_data_sectors))
        /\ IF DataReadFailed(ok)
           THEN /\ \E k \in 0..num_data_sectors :
                    /\ mem' = MemWrite(mem, ld_addr, data_sector, k)
                    /\ Leave(NULL, MemWrite(mem, ld_addr, data_sector, k))
                /\ serial' = Append(serial, "0x03")
                /\ ld_addr' = ld_addr
           ELSE /\ mem' = MemWrite(mem, ld_addr, data_sector, num_data_sectors)
                /\ ld_addr' = ld_addr + num_data_sectors * FAT_BLOCK_SIZE
                /\ serial' = serial
                /\ IF ChainEnds(cluster)
                   THEN Leave(ld_addr + num_data_sectors * FAT_BLOCK_SIZE,
                              MemWrite(mem, ld_addr, data_sector,
                                       num_data_sectors))
                   ELSE pc' = "lfc_outer" /\ UNCHANGED <<lfc_ret, calls>>
    /\ UNCHANGED <<inputs, geometry, orch, cluster, cached_fat_sector, sector,
                   data_sector, num_data_sectors, caller, searches>>

(***************************************************************************)
(* The loop of mmc_load_kernel.                                            *)
(***************************************************************************)
\* The head of an iteration: the root directory is loaded unless one is held.
LoopHead ==
    /\ pc = "loop"
    /\ i < 2
    /\ IF dir_start = NULL
       THEN /\ dir_start' = Dest
            /\ Call("root", root_cluster, Dest)
       ELSE /\ pc' = "search"
            /\ UNCHANGED <<dir_start, lfc, calls>>
    /\ UNCHANGED <<inputs, geometry, lba, i, err, dir_end, entry, ret, mem,
                   log, serial, searches, events>>

\* Mutant of RootReturn: a failed load is searched as an empty directory.
RootReturnSearchesAnyway ==
    /\ pc = "root_ret"
    /\ dir_end' = IF lfc_ret = NULL THEN Dest ELSE lfc_ret
    /\ pc' = "search" /\ ret' = ret
    /\ UNCHANGED <<inputs, geometry, lba, i, err, dir_start, entry, lfc, mem,
                   hist>>

\* The root directory load returned.
RootReturn ==
    /\ pc = "root_ret"
    /\ dir_end' = lfc_ret
    /\ IF lfc_ret = NULL THEN Return(0 - 1) ELSE pc' = "search" /\ ret' = ret
    /\ UNCHANGED <<inputs, geometry, lba, i, err, dir_start, entry, lfc, mem,
                   hist>>

\* find_file for this iteration's name, and the kernel load if it is found.
Search ==
    /\ pc = "search"
    /\ LET e == find_file(img, mem, dir_start, dir_end, SearchName(i, alt))
       IN  /\ entry' = e
           /\ searches' = Append(searches,
                  [i |-> i, name |-> SearchName(i, alt), found |-> e,
                   hit |-> IF e # NULL THEN EntryAt(img, mem, e) ELSE E_Zero,
                   after |-> Len(calls), mem |-> mem])
           /\ IF e # NULL
              THEN /\ serial' = Append(serial, "Loading kernel file")
                   /\ Call("file", StartCluster(EntryAt(img, mem, e)), Dest)
                   /\ i' = i
              ELSE /\ i' = i + 1
                   /\ pc' = "loop"
                   /\ UNCHANGED <<serial, lfc, calls, events>>
    /\ UNCHANGED <<inputs, geometry, lba, err, dir_start, dir_end, ret, mem, log>>

\* Mutant of FileReturn: after a failed kernel load the directory in memory
\* is kept.
FileReturnKeepsSnapshot ==
    /\ pc = "file_ret"
    /\ IF lfc_ret # NULL
       THEN Return(Variant(i, alt)) /\ UNCHANGED <<i, err, dir_start>>
       ELSE /\ err' = 0 - 1
            /\ dir_start' = dir_start
            /\ i' = i + 1
            /\ pc' = "loop"
            /\ ret' = ret
    /\ UNCHANGED <<inputs, geometry, lba, dir_end, entry, lfc, mem, hist>>

\* Mutant of FileReturn: after a failed kernel load the same candidate is
\* tried again.
FileReturnRetries ==
    /\ pc = "file_ret"
    /\ IF lfc_ret # NULL
       THEN Return(Variant(i, alt)) /\ UNCHANGED <<i, err, dir_start>>
       ELSE /\ err' = 0 - 1
            /\ dir_start' = NULL
            /\ i' = i
            /\ pc' = "loop"
            /\ ret' = ret
    /\ UNCHANGED <<inputs, geometry, lba, dir_end, entry, lfc, mem, hist>>

\* Mutant of FileReturn: a failed kernel load ends mmc_load_kernel.
FileReturnGivesUp ==
    /\ pc = "file_ret"
    /\ IF lfc_ret # NULL
       THEN Return(Variant(i, alt)) /\ UNCHANGED <<i, err, dir_start>>
       ELSE /\ err' = 0 - 1
            /\ Return(0 - 1)
            /\ UNCHANGED <<i, dir_start>>
    /\ UNCHANGED <<inputs, geometry, lba, dir_end, entry, lfc, mem, hist>>

\* The kernel load returned.
FileReturn ==
    /\ pc = "file_ret"
    /\ IF lfc_ret # NULL
       THEN Return(Variant(i, alt)) /\ UNCHANGED <<i, err, dir_start>>
       ELSE /\ err' = 0 - 1
            /\ dir_start' = NULL
            /\ i' = i + 1
            /\ pc' = "loop"
            /\ ret' = ret
    /\ UNCHANGED <<inputs, geometry, lba, dir_end, entry, lfc, mem, hist>>

\* Mutant of Finish: the remembered error is not looked at.
FinishAlwaysNotFound ==
    /\ pc = "loop"
    /\ i >= 2
    /\ Return(0 - 1) /\ serial' = Append(serial, "0x07")
    /\ UNCHANGED <<inputs, geometry, lba, i, err, dir_start, dir_end, entry,
                   lfc, mem, log, calls, searches, events>>

\* After the loop.
Finish ==
    /\ pc = "loop"
    /\ i >= 2
    /\ IF err # 0
       THEN Return(err) /\ serial' = serial
       ELSE Return(0 - 1) /\ serial' = Append(serial, "0x07")
    /\ UNCHANGED <<inputs, geometry, lba, i, err, dir_start, dir_end, entry,
                   lfc, mem, log, calls, searches, events>>

Next ==
    \/ GetFirstPartition
    \/ ProcessBootSector
    \/ LoopHead
    \/ RootReturn
    \/ Search
    \/ FileReturn
    \/ Finish
    \/ LfcOuter
    \/ LfcInner
    \/ LfcData

Spec == Init /\ [][Next]_vars

(***************************************************************************)
(* What the volume holds, read off the image by the FAT32 format alone.    *)
(***************************************************************************)
PrimaryName == Name11(FAT_BOOTFILE_NAME)

AlternateName == Name11(FAT_BOOTFILE_ALT_NAME)

\* A cluster number that names a data cluster: 2 .. 0x0fffffef.
IsDataCluster(c) == Le32(U32(2), c) /\ Le32(c, TopCluster)

\* The FAT entry of cluster c, its low 28 bits.
FatOf(im, c) ==
    LET k == FmtFatKey(im.mbr, im.bs, c) IN Mask28(DevWord(im, k[1], k[2]))

\* The data clusters from c on, up to the first terminating value.
RECURSIVE ChainSeq(_, _, _)
ChainSeq(im, c, fuel) ==
    IF fuel = 0 \/ ~IsDataCluster(c) THEN <<>>
    ELSE <<c>> \o ChainSeq(im, FatOf(im, c), fuel - 1)

ChainFuel == MaxReads + 2

ChainOf(im, c) == ChainSeq(im, c, ChainFuel)

\* The chain from c is a chain of data clusters that ends.
GoodChain(im, c) == Len(ChainOf(im, c)) \in 1..(ChainFuel - 1)

\* The device sectors of cluster c, in order.
ClusterSectors(im, c) ==
    [j \in 1..im.bs.cluster_size |->
        Add32(FmtClusterSector(im.mbr, im.bs, c), U32(j - 1))]

RECURSIVE Payload(_, _)
Payload(im, ch) ==
    IF ch = <<>> THEN <<>>
    ELSE ClusterSectors(im, Head(ch)) \o Payload(im, Tail(ch))

\* The maximal runs of consecutive cluster numbers of a chain, each as
\* <<first cluster, length>>.
RECURSIVE RunsOf(_)
RunsOf(ch) ==
    IF ch = <<>> THEN <<>>
    ELSE LET rest == RunsOf(Tail(ch)) IN
         IF Len(ch) > 1 /\ ch[2] = Add32(ch[1], U32(1))
         THEN <<<<ch[1], rest[1][2] + 1>>>> \o Tail(rest)
         ELSE <<<<ch[1], 1>>>> \o rest

\* The reads of the current load_from_cluster call, of one kind.
RECURSIVE Filter(_, _, _)
Filter(lg, op, c) ==
    IF lg = <<>> THEN <<>>
    ELSE IF Head(lg).op = op /\ Head(lg).call = c
    THEN <<Head(lg)>> \o Filter(Tail(lg), op, c)
    ELSE Filter(Tail(lg), op, c)

CallReads(op) == Filter(log, op, Len(calls))

\* load_from_cluster has just returned a non-null pointer.
Loaded == pc \in {"root_ret", "file_ret"} /\ lfc_ret # NULL

LastCall == calls[Len(calls)]

(***************************************************************************)
(* C1: for every FAT and every start cluster whose chain c1..cn is made    *)
(* of data clusters and ends at a terminating value, a load whose reads    *)
(* all succeed puts the payloads of c1..cn, in chain order, at the         *)
(* destination, transfers nothing else, and returns the offset one past    *)
(* the last byte: n * cluster_size * sector size.                          *)
(***************************************************************************)
C1_LoadsExactlyTheChain ==
    (Loaded /\ GoodChain(img, LastCall.start)) =>
        LET want == Payload(img, ChainOf(img, LastCall.start)) IN
        /\ lfc_ret = Dest + Len(want) * FAT_BLOCK_SIZE
        /\ Len(mem) >= Len(want)
        /\ SubSeq(mem, 1, Len(want)) = want

(***************************************************************************)
(* C2: a load issues exactly one data read per maximal run of consecutive  *)
(* cluster numbers of the chain: for a run of k clusters from cluster c,   *)
(* one read of k * cluster_size sectors at the first sector of c.          *)
(***************************************************************************)
C2_OneReadPerRun ==
    (Loaded /\ GoodChain(img, LastCall.start)) =>
        LET runs  == RunsOf(ChainOf(img, LastCall.start))
            reads == CallReads("data")
        IN  /\ Len(reads) = Len(runs)
            /\ \A k \in 1..Len(runs) :
                /\ reads[k].sector = FmtClusterSector(img.mbr, img.bs, runs[k][1])
                /\ reads[k].count = runs[k][2] * img.bs.cluster_size

(***************************************************************************)
(* C3: a load of a chain whose FAT entries all lie in one FAT sector       *)
(* reads exactly one FAT sector.                                           *)
(***************************************************************************)
C3_OneFatReadPerSector ==
    (/\ Loaded
     /\ GoodChain(img, LastCall.start)
     /\ \A k \in DOMAIN ChainOf(img, LastCall.start) :
            FmtFatKey(img.mbr, img.bs, ChainOf(img, LastCall.start)[k])[1]
            = FmtFatKey(img.mbr, img.bs, LastCall.start)[1])
    => Len(CallReads("fat")) = 1

(***************************************************************************)
(* The root directory as the volume holds it, and the entry a search for   *)
(* a name is to return, stated on the entries alone.                       *)
(***************************************************************************)
Min(S) == CHOOSE x \in S : \A y \in S : x <= y

\* The index of the first entry of es that lies before every entry whose
\* name starts with a zero byte, is neither a volume label nor a directory
\* and has the name nm; 0 if there is none.
FirstMatch(es, nm) ==
    LET stops == {j \in DOMAIN es : es[j].name[1] = 0}
        lim   == IF stops = {} THEN Len(es) + 1 ELSE Min(stops)
        good  == {j \in 1..(lim - 1) :
                    /\ (es[j].attr \div 8) % 2 = 0
                    /\ (es[j].attr \div 16) % 2 = 0
                    /\ es[j].name = nm}
    IN  IF good = {} THEN 0 ELSE Min(good)

\* The entries of a sequence of device sectors.
SectorsEntries(im, secs) ==
    [j \in 1..(Len(secs) * 16) |->
        LET sec == DevDir(im, secs[((j - 1) \div 16) + 1])
            k   == (j - 1) % 16
        IN  IF k < Len(sec.head) THEN sec.head[k + 1] ELSE sec.fill]

RootEntries(im) ==
    SectorsEntries(im, Payload(im, ChainOf(im, im.bs.root_cluster)))

\* The first five bytes of the filesystem-type tag are "FAT32".
TagIsFat32(im) == SubSeq(im.bs.fs_type, 1, 5) = <<70, 65, 84, 51, 50>>

\* Sector 0 is an MBR whose first partition has status 0x00 or 0x80.
MbrIsValid(im) == im.mbr.signature = 43605 /\ im.mbr.status \in {0, 128}

\* A file of this name is in the root directory of a FAT32 volume.
InRoot(im, nm) ==
    /\ MbrIsValid(im) /\ TagIsFat32(im)
    /\ GoodChain(im, im.bs.root_cluster)
    /\ FirstMatch(RootEntries(im), nm) # 0

RootFile(im, nm) == RootEntries(im)[FirstMatch(RootEntries(im), nm)]

AllReadsOk == \A k \in DOMAIN log : log[k].ok

Returned == pc = "done"

(***************************************************************************)
(* C4: the alt argument decides the order of the two searches: the primary *)
(* name first and the alternate second when it is zero, the alternate      *)
(* first and the primary second otherwise; and when both files are in the  *)
(* root directory and every read succeeds, the file loaded on return is    *)
(* the primary iff alt is zero.                                            *)
(***************************************************************************)
C4_AltDecidesOrder ==
    /\ Len(searches) <= 2
    /\ \A k \in DOMAIN searches :
        searches[k].name = IF (k = 1) = (alt = 0) THEN FAT_BOOTFILE_NAME
                           ELSE FAT_BOOTFILE_ALT_NAME
    /\ (Returned /\ AllReadsOk
        /\ InRoot(img, PrimaryName) /\ InRoot(img, AlternateName)) =>
        LET nm == IF alt = 0 THEN PrimaryName ELSE AlternateName IN
        /\ ret = (IF alt = 0 THEN 0 ELSE 1)
        /\ Len(searches) = 1
        /\ LastCall.who = "file"
        /\ LastCall.result # NULL
        /\ LastCall.start = <<RootFile(img, nm).starthi, RootFile(img, nm).start>>

\* C4: both files are there, alt is not zero, the alternate was loaded.
C4_Witness ==
    /\ Returned /\ AllReadsOk /\ alt # 0 /\ ret = 1
    /\ InRoot(img, PrimaryName) /\ InRoot(img, AlternateName)

(***************************************************************************)
(* C5: whenever mmc_load_kernel returns success, the value returned names  *)
(* the file whose chain was loaded last: 0 the primary name, 1 the         *)
(* alternate name, whichever search found it.                              *)
(***************************************************************************)
C5_VariantNamesLoadedFile ==
    Returned =>
        /\ ret \in {0 - 1, 0, 1}
        /\ ret # 0 - 1 =>
            LET sr == searches[Len(searches)] IN
            /\ sr.found # NULL
            /\ sr.hit.name = (IF ret = 0 THEN PrimaryName ELSE AlternateName)
            /\ LastCall.who = "file"
            /\ LastCall.result # NULL
            /\ LastCall.start = <<sr.hit.starthi, sr.hit.start>>

\* C5: only the alternate file is there and alt is 0: the first search misses,
\* the second finds the alternate, which is loaded and reported.
C5_Witness ==
    /\ Returned /\ AllReadsOk /\ alt = 0 /\ ret = 1
    /\ Len(searches) = 2
    /\ searches[1].found = NULL
    /\ ~InRoot(img, PrimaryName) /\ InRoot(img, AlternateName)

(***************************************************************************)
(* C6 (as amended): a failed read ends the function it occurs in at once,  *)
(* with no retry, and mmc_load_kernel returns failure, except that a       *)
(* failed read during the chain load of the first candidate found in       *)
(* iteration 0 is not fatal: the root directory is loaded again and, if    *)
(* the second candidate is found and loaded, success is returned with the  *)
(* second candidate's variant.                                             *)
(***************************************************************************)
FailedReads == {k \in DOMAIN log : ~log[k].ok}

InFirstFileLoad(k) ==
    /\ log[k].call # 0
    /\ calls[log[k].call].who = "file"
    /\ calls[log[k].call].i = 0

C6_FailedReadFatalButFirstFile ==
    \A k \in FailedReads :
        /\ \A j \in (k + 1)..Len(log) : log[j].call # log[k].call
        /\ IF InFirstFileLoad(k)
           THEN Returned =>
                    \/ ret = 0 - 1
                    \/ /\ ret = (IF alt = 0 THEN 1 ELSE 0)
                       /\ searches[Len(searches)].i = 1
                       /\ LastCall.who = "file" /\ LastCall.result # NULL
           ELSE /\ k = Len(log)
                /\ pc \in {"root_ret", "file_ret", "loop", "done"}
                /\ Returned => ret = 0 - 1

\* C6 as it was stated: any failed read makes mmc_load_kernel return
\* failure.
C6_AnyFailedReadIsFatal == (Returned /\ FailedReads # {}) => ret = 0 - 1

\* C6: a data read of the first candidate's load failed, the second
\* candidate was loaded, and success was returned.
C6_Witness ==
    /\ Returned /\ ret # 0 - 1
    /\ \E k \in FailedReads : InFirstFileLoad(k) /\ log[k].op = "data"

(***************************************************************************)
(* C7 (as amended): for every boot sector whose tag differs from "FAT32"   *)
(* in its first 5 bytes process_boot_sector returns failure and no later   *)
(* read is made, but the four geometry values have been overwritten with   *)
(* the values derived from that boot sector; only a failed read of the     *)
(* boot sector leaves them as they were.                                   *)
(***************************************************************************)
BootSectorRead == Len(log) >= 2 /\ log[2].op = "boot"

GeometryOf(im) ==
    <<FmtFat1(im.mbr, im.bs), FmtData(im.mbr, im.bs), im.bs.root_cluster,
      im.bs.cluster_size>>

GeometryAtStart == <<<<0, 0>>, <<0, 0>>, <<0, 0>>, 0>>

C7_NotFat32FailsGeometrySet ==
    /\ (BootSectorRead /\ log[2].ok /\ ~TagIsFat32(img)) =>
        /\ Returned /\ ret = 0 - 1 /\ Len(log) = 2
        /\ geometry = GeometryOf(img)
    /\ (BootSectorRead /\ ~log[2].ok) =>
        /\ Returned /\ ret = 0 - 1 /\ Len(log) = 2
        /\ geometry = GeometryAtStart

\* C7 as it was stated: failure, and the four geometry values as they were
\* before the call.
C7_NotFat32SetsNoGeometry ==
    (BootSectorRead /\ log[2].ok /\ ~TagIsFat32(img)) =>
        /\ Returned /\ ret = 0 - 1
        /\ geometry = GeometryAtStart

\* C7: a boot sector that is not FAT32 was read and failure returned.
C7_Witness ==
    /\ BootSectorRead /\ log[2].ok /\ ~TagIsFat32(img)
    /\ Returned /\ geometry # GeometryAtStart

(***************************************************************************)
(* C8: get_first_partition reads sector 0, one sector, once; it stores the *)
(* first entry's LBA and returns success iff the read succeeds, the        *)
(* signature is 0xAA55 and the status byte is 0x00 or 0x80; otherwise it   *)
(* returns failure, leaves the LBA unwritten and no further read is made.  *)
(***************************************************************************)
C8_PartitionLocator ==
    IF log = <<>> THEN lba = Unset
    ELSE /\ log[1].op = "mbr" /\ log[1].sector = <<0, 0>> /\ log[1].count = 1
         /\ \A k \in 2..Len(log) : log[k].op # "mbr"
         /\ IF log[1].ok /\ MbrIsValid(img)
            THEN /\ lba = img.mbr.lba
                 /\ Len(log) = 1 => pc = "process_boot_sector"
            ELSE /\ lba = Unset
                 /\ Returned /\ ret = 0 - 1 /\ Len(log) = 1

\* C8: a valid MBR whose first entry has status 0x00 was accepted.
C8_Witness ==
    /\ Len(log) = 1 /\ log[1].ok
    /\ img.mbr.signature = 43605 /\ img.mbr.status = 0
    /\ lba = img.mbr.lba /\ pc = "process_boot_sector"

(***************************************************************************)
(* C9: when get_first_partition or process_boot_sector fails,              *)
(* mmc_load_kernel returns failure at once and no later read is made: a    *)
(* bad MBR leaves one read in all (sector 0, one sector), a boot-sector    *)
(* failure leaves no FAT-sector or data read.                              *)
(***************************************************************************)
C9_FailsAtOnce ==
    /\ (Len(log) >= 1 /\ ~(log[1].ok /\ MbrIsValid(img))) =>
        /\ Returned /\ ret = 0 - 1
        /\ log = <<[op |-> "mbr", sector |-> <<0, 0>>, count |-> 1,
                    ok |-> log[1].ok, call |-> 0]>>
    /\ (BootSectorRead /\ ~(log[2].ok /\ TagIsFat32(img))) =>
        /\ Returned /\ ret = 0 - 1
        /\ Len(log) = 2 /\ calls = <<>>
        /\ \A k \in DOMAIN log : log[k].op \notin {"fat", "data"}

\* C9: sector 0 was read, its signature is not 0xAA55, failure returned.
C9_Witness ==
    /\ Returned /\ Len(log) = 1 /\ log[1].ok
    /\ img.mbr.signature # 43605

(***************************************************************************)
(* C10: find_file returns the first entry, from first up to end            *)
(* exclusive, that lies before every entry whose name starts with a zero   *)
(* byte, has neither the volume-label nor the directory bit and has the    *)
(* requested 11-byte name; it returns NULL if there is none.               *)
(***************************************************************************)
\* The directory entries in memory from the destination up to offset end.
MemEntries(m, end) ==
    [j \in 1..(end \div 32) |-> EntryAt(img, m, (j - 1) * 32)]

\* find_file has just returned an entry: the kernel load is entered.
JustFound ==
    pc = "lfc_outer" /\ caller = "file" /\ LastCall.from = Len(log)

\* find_file has just returned NULL: the next iteration is at its head.
JustMissed == pc = "loop" /\ searches # <<>> /\ dir_start # NULL

LastSearch == searches[Len(searches)]

C10_FindFile ==
    /\ JustFound =>
        LET fm == FirstMatch(MemEntries(mem, dir_end), Name11(LastSearch.name))
        IN  fm # 0 /\ entry = (fm - 1) * 32 /\ LastSearch.found = entry
    /\ JustMissed =>
        /\ FirstMatch(MemEntries(mem, dir_end), Name11(LastSearch.name)) = 0
        /\ entry = NULL /\ LastSearch.found = NULL

\* C10: the first entry has the name but is a directory; the second is
\* returned.
C10_Witness ==
    /\ JustFound /\ entry = 32
    /\ EntryAt(img, mem, 0).name = Name11(LastSearch.name)
    /\ EntryAt(img, mem, 0).attr = 16

(***************************************************************************)
(* C11: mmc_load_kernel emits the "file not found" diagnostic 0x07 and     *)
(* returns failure iff both searches ran, neither found an entry and no    *)
(* kernel load failed; when an entry was found, its load failed and no     *)
(* later load succeeded, it returns the remembered error -1 and 0x07 is    *)
(* not emitted; when 0x07 is emitted no kernel load was ever attempted.    *)
(***************************************************************************)
Emitted(code) == \E k \in DOMAIN serial : serial[k] = code

FileCalls == {k \in DOMAIN calls : calls[k].who = "file"}

RootCalls == {k \in DOMAIN calls : calls[k].who = "root"}

FailedFileCalls == {k \in FileCalls : calls[k].result = NULL}

BothSearchesMissed ==
    /\ Len(searches) = 2
    /\ searches[1].found = NULL /\ searches[2].found = NULL

ReadIssued(ops) == Len(log') > Len(log) /\ log'[Len(log')].op \in ops

SearchMade == Len(searches') > Len(searches)

C12_Step ==
    /\ ReadIssued({"fat", "data"}) =>
        /\ BootSectorRead /\ log[2].ok /\ Len(log) >= 2
        /\ lba = img.mbr.lba
        /\ geometry = GeometryOf(img)
    /\ SearchMade =>
        /\ calls # <<>>
        /\ LastCall.who = "root"
        /\ LastCall.result \notin {NULL, Running}
        /\ LastCall.result = dir_end /\ dir_start = Dest
        /\ mem = LastCall.mem
        /\ \A k \in DOMAIN log : log[k].call = Len(calls) => log[k].ok

C12_StrictSequencing == [][C12_Step]_vars

\* C12: the second search was made on the root directory loaded again after
\* a failed kernel load.
C12_Witness ==
    /\ Len(searches) = 2 /\ searches[2].after = 3
    /\ calls[2].who = "file" /\ calls[2].result = NULL
    /\ calls[3].who = "root" /\ calls[3].result # NULL

(***************************************************************************)
(* C13: the four geometry values are written in one step only, the one of  *)
(* process_boot_sector, which is taken at most once in a call; from then   *)
(* on they hold the values of the boot sector and no step of               *)
(* load_from_cluster, find_file or the loop changes them, a failed kernel  *)
(* load and the root directory load that follows it included.              *)
(***************************************************************************)
C13_Step ==
    /\ pc # "process_boot_sector" => UNCHANGED geometry
    /\ pc' = "process_boot_sector" =>
            pc \in {"get_first_partition", "process_boot_sector"}
    /\ (BootSectorRead /\ log[2].ok) =>
            geometry = GeometryOf(img) /\ UNCHANGED geometry

C13_GeometryWrittenOnce == [][C13_Step]_vars

\* C13: a kernel load failed, the root directory was loaded again, and the
\* geometry is still the boot sector's.
C13_Witness ==
    /\ Len(calls) = 3 /\ pc = "root_ret"
    /\ calls[2].who = "file" /\ calls[2].result = NULL
    /\ lfc_ret # NULL
    /\ geometry = GeometryOf(img) /\ geometry # GeometryAtStart

(***************************************************************************)
(* C14: load_from_cluster is deterministic and keeps nothing from one call *)
(* to the next: of two calls with the same start cluster on the same       *)
(* device and geometry, as long as the device answered the earlier reads   *)
(* alike the next read is the same; a call that has returned made no fewer *)
(* reads than another whose reads were answered alike; and two calls that  *)
(* returned after the same reads returned the same end offset and left     *)
(* the same sectors at the destination.                                    *)
(***************************************************************************)
IsCall(c, r) == r.call = c

ReadsOfCall(c) == SelectSeq(log, LAMBDA r : IsCall(c, r))

\* A read as the device sees it, and as it answers.
Request(r) == <<r.op, r.sector, r.count>>

Answered(r) == <<r.op, r.sector, r.count, r.ok>>

AgreeUpTo(ra, rb, n) ==
    /\ n <= Len(ra) /\ n <= Len(rb)
    /\ \A j \in 1..n : Answered(ra[j]) = Answered(rb[j])

\* The sectors a successful call left from the destination to its end offset.
Contents(c) == SubSeq(calls[c].mem, 1, calls[c].result \div FAT_BLOCK_SIZE)

SameLoad(a, b) ==
    LET ra == ReadsOfCall(a)
        rb == ReadsOfCall(b)
    IN  /\ \A k \in 1..Len(ra) :
            (k <= Len(rb) /\ AgreeUpTo(ra, rb, k - 1)) =>
                Request(ra[k]) = Request(rb[k])
        /\ (calls[a].result # Running /\ AgreeUpTo(ra, rb, Len(ra))) =>
            /\ Len(rb) = Len(ra)
            /\ calls[b].result # Running =>
                /\ calls[b].result = calls[a].result
                /\ calls[a].result # NULL => Contents(a) = Contents(b)

C14_Deterministic ==
    \A a, b \in DOMAIN calls :
        (a # b /\ calls[a].start = calls[b].start) => SameLoad(a, b)

(***************************************************************************)
(* C15: the FAT lookups and data reads of one load_from_cluster call come  *)
(* in batches, each a run of lookups followed by one data read: the first  *)
(* lookup is of the start cluster, a lookup that follows a lookup is of    *)
(* the successor just found, which is the previous cluster plus one, and   *)
(* the data read comes after every lookup of its batch, the lookup that    *)
(* found the non-contiguous or terminating successor included; it starts   *)
(* at the first sector of the cluster the batch was entered with and       *)
(* covers one cluster per lookup; the first lookup of the next batch comes *)
(* after it and is of the successor found last.  For a chain of two        *)
(* non-adjacent clusters c, d the lookups of chain clusters and the data   *)
(* reads are, in order: lookup c, data read at c, lookup d, data read at   *)
(* d.                                                                      *)
(***************************************************************************)
IsEventOf(c, e) == e.call = c

EventsOfCall(c) == SelectSeq(events, LAMBDA e : IsEventOf(c, e))

\* The index of the first event of the batch that event k of ev is in.
BatchEntry(ev, k) ==
    LET before == {j \in 1..(k - 1) : ev[j].kind = "data"}
    IN  IF before = {} THEN 1 ELSE (CHOOSE j \in before : \A q \in before : q <= j) + 1

LookupInOrder(c, ev, k) ==
    /\ k = 1 => ev[k].cluster = calls[c].start
    /\ (k > 1 /\ ev[k - 1].kind = "lookup") =>
        /\ ev[k].cluster = ev[k - 1].value
        /\ ev[k].cluster = Add32(ev[k - 1].cluster, U32(1))
        /\ ev[k].at >= ev[k - 1].at
    /\ (k > 1 /\ ev[k - 1].kind = "data") =>
        /\ ev[k].cluster = ev[k - 2].value
        /\ ev[k].at >= ev[k - 1].at

DataReadInOrder(ev, k) ==
    LET j == BatchEntry(ev, k) IN
    /\ k > 1 /\ j < k
    /\ \A m \in j..(k - 1) : ev[m].kind = "lookup" /\ ev[m].at < ev[k].at
    /\ ev[k - 1].value # Add32(ev[k - 1].cluster, U32(1))
    /\ ev[k].sector = FmtClusterSector(img.mbr, img.bs, ev[j].cluster)
    /\ ev[k].count = (k - j) * img.bs.cluster_size
    /\ log[ev[k].at].op = "data" /\ log[ev[k].at].call = ev[k].call
    /\ log[ev[k].at].sector = ev[k].sector
    /\ log[ev[k].at].count = ev[k].count

IsChainEvent(ch, e) ==
    e.kind = "data" \/ \E k \in DOMAIN ch : ch[k] = e.cluster

\* The kind of an event and the cluster it is about.
Shape(e) ==
    <<e.kind, IF e.kind = "data" THEN e.sector
              ELSE FmtClusterSector(img.mbr, img.bs, e.cluster)>>

ShapesOf(ev) == [k \in DOMAIN ev |-> Shape(ev[k])]

TwoApart(ch) ==
    /\ Len(ch) = 2 /\ ch[2] # Add32(ch[1], U32(1)) /\ ch[2] # ch[1]

C15_ReadOrdering ==
    \A c \in DOMAIN calls :
        LET ev == EventsOfCall(c)
            ch == ChainOf(img, calls[c].start)
        IN  /\ \A k \in DOMAIN ev :
                IF ev[k].kind = "lookup" THEN LookupInOrder(c, ev, k)
                ELSE DataReadInOrder(ev, k)
            /\ (calls[c].result \notin {NULL, Running} /\ TwoApart(ch)) =>
                LET sc(x) == FmtClusterSector(img.mbr, img.bs, x) IN
                ShapesOf(SelectSeq(ev, LAMBDA e : IsChainEvent(ch, e)))
                = <<<<"lookup", sc(ch[1])>>, <<"data", sc(ch[1])>>,
                    <<"lookup", sc(ch[2])>>, <<"data", sc(ch[2])>>>>

(***************************************************************************)
(* C16: when the first candidate is found and its load fails,              *)
(* mmc_load_kernel does not return: it drops the directory it holds, loads *)
(* the root directory again from the device, with no search in between,    *)
(* and searches it for the second candidate; if the reload fails it        *)
(* returns failure at once, and if the second candidate is found and its   *)
(* load succeeds it returns success with the second candidate's variant.   *)
(***************************************************************************)
FirstFileLoadFailed ==
    /\ Len(calls) >= 2 /\ calls[2].who = "file" /\ calls[2].i = 0
    /\ calls[2].result = NULL

SecondName == IF alt = 0 THEN FAT_BOOTFILE_ALT_NAME ELSE FAT_BOOTFILE_NAME

SecondVariant == IF alt = 0 THEN 1 ELSE 0

C16_Fallback ==
    FirstFileLoadFailed =>
        /\ Len(searches) >= 1 /\ searches[1].found # NULL
        /\ Len(calls) = 2 =>
            /\ ~Returned
            /\ \/ pc = "file_ret"
               \/ pc = "loop" /\ i = 1 /\ dir_start = NULL /\ err = 0 - 1
            /\ Len(searches) = 1
        /\ Len(calls) >= 3 =>
            /\ calls[3].who = "root" /\ calls[3].i = 1
            /\ calls[3].start = img.bs.root_cluster
            /\ calls[3].from = Len(ReadsOfCall(0)) + Len(ReadsOfCall(1))
                                + Len(ReadsOfCall(2))
            /\ calls[3].result = Running => Len(searches) = 1 /\ ~Returned
            /\ (calls[3].result = NULL /\ pc # "root_ret") =>
                /\ Returned /\ ret = 0 - 1
                /\ Len(calls) = 3 /\ Len(searches) = 1
            /\ calls[3].result \notin {NULL, Running} =>
                /\ \E k \in DOMAIN log : log[k].call = 3 /\ log[k].op = "fat"
                /\ \E k \in DOMAIN log : log[k].call = 3 /\ log[k].op = "data"
                /\ pc \notin {"root_ret", "search"} =>
                    /\ Len(searches) = 2
                    /\ searches[2].name = SecondName
                    /\ searches[2].after = 3
                    /\ searches[2].mem = calls[3].mem
                /\ (Returned /\ Len(calls) = 4
                    /\ calls[4].result # NULL) =>
                    /\ ret = SecondVariant
                    /\ calls[4].who = "file"
                    /\ calls[4].start = StartCluster(searches[2].hit)
                /\ (Returned /\ ret # 0 - 1) =>
                    Len(calls) = 4 /\ calls[4].result # NULL

\* C16: the first candidate's load failed, the root directory was loaded
\* again, the second candidate was found and loaded, success was returned.
C16_Witness ==
    /\ FirstFileLoadFailed /\ Returned /\ ret = SecondVariant
    /\ Len(calls) = 4 /\ calls[3].who = "root" /\ calls[4].result # NULL

(***************************************************************************)
(* C17: in every execution mmc_load_kernel makes at most two searches, one *)
(* per iteration and each for another name; at most two kernel loads, one  *)
(* per search that found an entry and never two for one name; and at most  *)
(* two root directory loads, the first before anything else and the        *)
(* second only right after the failed kernel load of the candidate of the  *)
(* first iteration.                                                        *)
(***************************************************************************)
C17_BoundedWork ==
    /\ Len(searches) <= 2
    /\ \A k \in DOMAIN searches : searches[k].i = k - 1
    /\ Len(searches) = 2 => searches[1].name # searches[2].name
    /\ Cardinality(FileCalls) <= 2
    /\ \A k \in FileCalls :
        /\ calls[k].i + 1 \in DOMAIN searches
        /\ searches[calls[k].i + 1].found # NULL
        /\ searches[calls[k].i + 1].after = k - 1
        /\ \A j \in FileCalls : calls[j].i = calls[k].i => j = k
    /\ Cardinality(RootCalls) <= 2
    /\ calls # <<>> => calls[1].who = "root" /\ calls[1].i = 0
    /\ \A k \in RootCalls :
            k > 1 =>
                /\ calls[k].i = 1
                /\ calls[k - 1].who = "file" /\ calls[k - 1].i = 0
                /\ calls[k - 1].result = NULL
                /\ searches[1].found # NULL

\* C17: both candidates were found and both kernel loads failed: two
\* searches, two kernel loads, two root directory loads.
C17_Witness ==
    /\ Returned /\ ret = 0 - 1
    /\ Len(searches) = 2 /\ Cardinality(FileCalls) = 2
    /\ Cardinality(RootCalls) = 2

(***************************************************************************)
(* C18: every find_file call scans a directory that no kernel load has     *)
(* written to since it was loaded: the last load_from_cluster call before  *)
(* the search is a successful load of the root directory, the memory       *)
(* scanned holds exactly the sectors that load read from the device, and   *)
(* every kernel load made after that root load was started by this search  *)
(* or a later one; the start cluster passed to a kernel load is the one    *)
(* held by the entry found in that directory, taken before the load wrote  *)
(* anything.                                                               *)
(***************************************************************************)
Span(s, n) == [j \in 1..n |-> Add32(s, U32(j - 1))]

RECURSIVE Spans(_)
Spans(rs) ==
    IF rs = <<>> THEN <<>>
    ELSE (IF Head(rs).op = "data" /\ Head(rs).ok
          THEN Span(Head(rs).sector, Head(rs).count) ELSE <<>>)
         \o Spans(Tail(rs))

\* The sectors the data reads of call c delivered, in order.
SectorsRead(c) == Spans(ReadsOfCall(c))

SearchOnFreshSnapshot(k) ==
    LET c   == searches[k].after
        sr  == searches[k]
    IN  /\ c \in RootCalls
        /\ calls[c].result \notin {NULL, Running}
        /\ calls[c].result = Len(SectorsRead(c)) * FAT_BLOCK_SIZE
        /\ Len(sr.mem) >= Len(SectorsRead(c))
        /\ SubSeq(sr.mem, 1, Len(SectorsRead(c))) = SectorsRead(c)
        /\ \A f \in FileCalls : f > c => calls[f].i >= sr.i
        /\ sr.found # NULL =>
            /\ sr.found >= 0 /\ sr.found < calls[c].result
            /\ sr.hit = EntryAt(img, SectorsRead(c), sr.found)
            /\ c + 1 \in FileCalls
            /\ calls[c + 1].start = StartCluster(sr.hit)
            /\ calls[c + 1].i = sr.i
            /\ calls[c + 1].from = calls[c].from + Len(ReadsOfCall(c))

C18_SnapshotUntouched == \A k \in DOMAIN searches : SearchOnFreshSnapshot(k)

\* C18: the failed load of the first candidate overwrote the first sector
\* of the directory, and the second search scanned the directory as loaded
\* again.
C18_Witness ==
    /\ Len(searches) = 2 /\ Len(calls) >= 3
    /\ calls[2].who = "file" /\ calls[2].result = NULL
    /\ calls[2].mem # <<>> /\ calls[2].mem[1] # calls[1].mem[1]
    /\ searches[2].mem[1] = calls[1].mem[1]

(***************************************************************************)
(* C19: every data read of load_from_cluster covers only sectors of data   *)
(* clusters (2 .. 0x0fffffef) of the chain of the start cluster it was     *)
(* called with: it does not start below the data region, and a             *)
(* terminating FAT value adds no sector to a batch, whichever start        *)
(* cluster mmc_load_kernel passes (0 of an empty file included) and        *)
(* whatever the FAT holds (a terminator equal to the previous cluster      *)
(* plus one included).                                                     *)
(***************************************************************************)
Range(q) == {q[k] : k \in DOMAIN q}

DataReadInChain(r) ==
    LET pay == Range(Payload(img, ChainOf(img, calls[r.call].start))) IN
    /\ Le32(FmtData(img.mbr, img.bs), r.sector)
    /\ \A j \in 1..r.count : Add32(r.sector, U32(j - 1)) \in pay

C19_OnlyDataClusters ==
    \A k \in DOMAIN log : log[k].op = "data" => DataReadInChain(log[k])

(***************************************************************************)
(* C20: when the FAT chain from the start cluster reaches a terminating    *)
(* value without visiting a cluster twice, load_from_cluster stops at the  *)
(* first terminating value a lookup produces: the batch of that lookup is  *)
(* the last one, no lookup and no data read of the call comes after its    *)
(* data read, and when that data read succeeds the call has returned.      *)
(***************************************************************************)
\* The indices of the lookups of ev that produced a terminating value.
Terminal(ev) ==
    {k \in DOMAIN ev : ev[k].kind = "lookup" /\ ChainEnds(ev[k].value)}

\* The index of the first data read of ev after event t, or 0.
DataAfter(ev, t) ==
    LET later == {k \in DOMAIN ev : k > t /\ ev[k].kind = "data"}
    IN  IF later = {} THEN 0 ELSE Min(later)

StopsAtTerminator(c) ==
    LET ev == EventsOfCall(c) IN
    Terminal(ev) # {} =>
        LET b == DataAfter(ev, Min(Terminal(ev))) IN
        b # 0 =>
            /\ Len(ev) = b
            /\ log[ev[b].at].ok => calls[c].result \notin {NULL, Running}

C20_StopsAtFirstTerminator ==
    \A c \in DOMAIN calls :
        GoodChain(img, calls[c].start) => StopsAtTerminator(c)

=============================================================================
